---------------------------- MODULE Spec2Model ----------------------------
(***************************************************************************)
(* Model of the EverMeds chat service (src/app.py): the FAQ loader, the    *)
(* keyword-overlap retriever, the /faq endpoint and the /api/chat handler, *)
(* together with the faq.json file they read.                              *)
(*                                                                         *)
(* Values follow Python/JSON: every value is a record tagged by t          *)
(* ("null", "num", "str", "list", "obj").  A string is a sequence of runs  *)
(* [c |-> character, n |-> repetitions] so that a 4000-character input is  *)
(* a small value; len, lower, concatenation, join and the regular          *)
(* expression [a-zA-Z0-9]+ are computed on that representation.            *)
(***************************************************************************)
EXTENDS Integers, Sequences, FiniteSets, TLC

VARIABLES
    \* --- a direct call of best_faq_snippets(user_text, faq_items, top_k)
    arg_text,      \* the user_text argument (None or a str)
    arg_items,     \* the faq_items argument (None or a list)
    arg_k,         \* the top_k argument
    scored,        \* the local list `scored` after the sort: <<score, index>> pairs
    ret,           \* the returned list, as indexes into faq_items (object references)
    rpc,           \* "call" | "returned" | "raised"
    \* --- the service
    file,          \* faq.json: [exists |-> BOOLEAN, toks |-> sequence of JSON tokens]
    wr,            \* the writer replacing faq.json
    req,           \* the /api/chat request in flight: its position, its locals
                   \* (body, user_len, faq_items, top_faqs), the file as it read it
                   \* (seen), whether a rewrite was under way then (obs), its
                   \* response (status, text) and what it has used so far
    faqresp        \* the last /faq response

vars == <<arg_text, arg_items, arg_k, scored, ret, rpc, file, wr, req, faqresp>>

rvars == <<arg_text, arg_items, arg_k, scored, ret, rpc>>
svars == <<file, wr, req, faqresp>>

(***************************************************************************)
(* Bounds of the model.                                                    *)
(***************************************************************************)
MaxKB == 3          \* longest knowledge base handed to a direct retriever call
MaxTopK == 3        \* largest top_k of a direct retriever call
MaxMsgs == 2        \* longest messages list of a request
MaxRewrites == 1    \* rewrites of faq.json in one behaviour

(***************************************************************************)
(* Program constants.                                                      *)
(***************************************************************************)
MaxUserLen == 4000  \* api_chat: user_len > 4000 -> 413
DefaultTopK == 3    \* api_chat: top_k=3

(***************************************************************************)
(* Sequences.                                                              *)
(***************************************************************************)
Range(s) == { s[i] : i \in DOMAIN s }

Min(a, b) == IF a <= b THEN a ELSE b
Max(a, b) == IF a >= b THEN a ELSE b

SeqsUpTo(S, n) == UNION { [1..m -> S] : m \in 0..n }

(***************************************************************************)
(* Python/JSON values.                                                     *)
(***************************************************************************)
JNull == [t |-> "null"]
JNum(v) == [t |-> "num", v |-> v]
JStr(runs) == [t |-> "str", s |-> runs]
JList(items) == [t |-> "list", items |-> items]
JObj(fields) == [t |-> "obj", f |-> fields]

\* A str literal from its characters.
S(chars) == [i \in DOMAIN chars |-> [c |-> chars[i], n |-> 1]]
\* n repetitions of character c (c * n).
Rep(c, n) == IF n = 0 THEN <<>> ELSE <<[c |-> c, n |-> n]>>

\* len(str)
RECURSIVE StrLen(_)
StrLen(runs) == IF runs = <<>> THEN 0 ELSE Head(runs).n + StrLen(Tail(runs))

\* The characters of a str, one by one.
RECURSIVE Chars(_)
RECURSIVE Copies(_, _)
Copies(c, n) == IF n = 0 THEN <<>> ELSE <<c>> \o Copies(c, n - 1)
Chars(runs) == IF runs = <<>> THEN <<>>
               ELSE Copies(Head(runs).c, Head(runs).n) \o Chars(Tail(runs))

\* Python truthiness (the `or` of `x or default`, `if faq_items`, `not messages`).
Truthy(v) ==
    CASE v.t = "null" -> FALSE
      [] v.t = "num"  -> v.v # 0
      [] v.t = "str"  -> StrLen(v.s) > 0
      [] v.t = "list" -> Len(v.items) > 0
      [] v.t = "obj"  -> DOMAIN v.f # {}

\* x or default
Or(v, default) == IF Truthy(v) THEN v ELSE default

\* dict.get(key, default)
Get(obj, key, default) == IF key \in DOMAIN obj.f THEN obj.f[key] ELSE default

(***************************************************************************)
(* str.lower() and re.findall(r"[a-zA-Z0-9]+", s).                         *)
(***************************************************************************)
UpperChars == <<"A","B","C","D","E","F","G","H","I","J","K","L","M",
                "N","O","P","Q","R","S","T","U","V","W","X","Y","Z">>
LowerChars == <<"a","b","c","d","e","f","g","h","i","j","k","l","m",
                "n","o","p","q","r","s","t","u","v","w","x","y","z">>
DigitChars == <<"0","1","2","3","4","5","6","7","8","9">>

LowerChar(c) ==
    IF \E i \in DOMAIN UpperChars : UpperChars[i] = c
    THEN LowerChars[CHOOSE i \in DOMAIN UpperChars : UpperChars[i] = c]
    ELSE c

Lower(runs) == [i \in DOMAIN runs |-> [c |-> LowerChar(runs[i].c), n |-> runs[i].n]]

\* The characters of the class [a-zA-Z0-9].
AlnumChars == Range(UpperChars) \cup Range(LowerChars) \cup Range(DigitChars)

IsAlnum(c) == c \in AlnumChars

\* The scan of findall: `cur` is the match being extended, `out` the matches so far.
RECURSIVE FindAllFrom(_, _, _)
FindAllFrom(runs, cur, out) ==
    IF runs = <<>>
    THEN IF cur = <<>> THEN out ELSE Append(out, cur)
    ELSE IF IsAlnum(Head(runs).c)
         THEN FindAllFrom(Tail(runs), cur \o Copies(Head(runs).c, Head(runs).n), out)
         ELSE FindAllFrom(Tail(runs), <<>>, IF cur = <<>> THEN out ELSE Append(out, cur))

FindAll(runs) == FindAllFrom(runs, <<>>, <<>>)

\* set(re.findall(r"[a-zA-Z0-9]+", s))
Words(runs) == Range(FindAll(runs))

(***************************************************************************)
(* best_faq_snippets (src/app.py 36-50).                                   *)
(***************************************************************************)
EmptyStr == JStr(<<>>)
Space == S(<<" ">>)

KeyChars(k) ==
    CASE k = "question" -> <<"q","u","e","s","t","i","o","n">>
      [] k = "answer"   -> <<"a","n","s","w","e","r">>
      [] k = "messages" -> <<"m","e","s","s","a","g","e","s">>
      [] k = "role"     -> <<"r","o","l","e">>
      [] k = "content"  -> <<"c","o","n","t","e","n","t">>

RECURSIVE SetToSeq(_)
SetToSeq(A) == IF A = {} THEN <<>>
               ELSE LET x == CHOOSE x \in A : TRUE IN <<x>> \o SetToSeq(A \ {x})

\* `for item in v` can run: lists, dicts and strs are iterable, None and numbers are not.
Iterable(v) == v.t \in {"list", "obj", "str"}

\* What `for item in v` yields: the elements of a list, the keys of a dict, the
\* characters of a str.
IterItems(v) ==
    CASE v.t = "list" -> v.items
      [] v.t = "obj"  -> LET ks == SetToSeq(DOMAIN v.f)
                         IN [i \in DOMAIN ks |-> JStr(S(KeyChars(ks[i])))]
      [] v.t = "str"  -> LET cs == Chars(v.s)
                         IN [i \in DOMAIN cs |-> JStr(S(<<cs[i]>>))]

\* Line 44 evaluates without an exception: item has .get, and both values are strs
\* (str + " " + str).
ItemOk(item) ==
    /\ item.t = "obj"
    /\ Get(item, "question", EmptyStr).t = "str"
    /\ Get(item, "answer", EmptyStr).t = "str"

\* qa_text, line 44
QaText(item) ==
    Lower(Get(item, "question", EmptyStr).s \o Space \o Get(item, "answer", EmptyStr).s)

\* t = set(re.findall(..., qa_text)); score = len(q & t), lines 45-46.
\* ScoreContainment is the variant that counts the query words occurring anywhere in
\* qa_text, inside longer words too.
IsSubstring(w, cs) ==
    \E i \in 1..(Len(cs) - Len(w) + 1) : SubSeq(cs, i, i + Len(w) - 1) = w

ScoreContainment(q, qa_text) ==
    Cardinality({ w \in q : IsSubstring(w, Chars(qa_text)) })

Score(q, qa_text) == Cardinality(q \cap Words(qa_text))

\* if score > 0, line 47.  Variants: score >= 0 and score > 1.
KeepNonNegative(score) == score >= 0

KeepOnlyRepeated(score) == score > 1

Keep(score) == score > 0

\* The loop of lines 43-48: scored gets (score, item) for every kept item, in order.
RECURSIVE ScoreLoop(_, _, _, _)
ScoreLoop(q, items, i, acc) ==
    IF i > Len(items) THEN acc
    ELSE LET score == Score(q, QaText(items[i]))
         IN ScoreLoop(q, items, i + 1,
                      IF Keep(score) THEN Append(acc, <<score, i>>) ELSE acc)

\* scored.sort(reverse=True, key=lambda x: x[0]), line 49: a stable sort; with
\* reverse=True elements of equal key keep their order.  Each pair is placed behind
\* the pairs of greater or equal score already placed.  InsertBeforeEqual is the
\* variant that places it in front of the pairs of equal score (a sort that reverses
\* ties).
InsertBeforeEqual(sorted, x) ==
    LET n == Cardinality({ j \in DOMAIN sorted : sorted[j][1] > x[1] })
    IN SubSeq(sorted, 1, n) \o <<x>> \o SubSeq(sorted, n + 1, Len(sorted))

Insert(sorted, x) ==
    LET n == Cardinality({ j \in DOMAIN sorted : sorted[j][1] >= x[1] })
    IN SubSeq(sorted, 1, n) \o <<x>> \o SubSeq(sorted, n + 1, Len(sorted))

RECURSIVE SortFrom(_, _, _)
SortFrom(pairs, i, sorted) ==
    IF i > Len(pairs) THEN sorted
    ELSE SortFrom(pairs, i + 1, Insert(sorted, pairs[i]))

SortDesc(pairs) == SortFrom(pairs, 1, <<>>)

\* scored[:top_k], line 50; a negative top_k counts from the end.  SliceOneMore is the
\* variant scored[:top_k + 1].
SliceOneMore(seq, k) ==
    IF k >= 0 THEN SubSeq(seq, 1, Min(k + 1, Len(seq)))
    ELSE SubSeq(seq, 1, Max(0, Len(seq) + k + 1))

Slice(seq, k) ==
    IF k >= 0 THEN SubSeq(seq, 1, Min(k, Len(seq)))
    ELSE SubSeq(seq, 1, Max(0, Len(seq) + k))

\* The whole function.  user_text is None or a str.  The result is
\* [raised |-> TRUE] when an exception leaves the function, and otherwise carries the
\* sorted local `scored` and the returned list as indexes into faq_items.
best_faq_snippets(user_text, faq_items, top_k) ==
    LET q == Words(Lower(Or(user_text, EmptyStr).s))
        src == Or(faq_items, JList(<<>>))
    IN IF ~Iterable(src) THEN [raised |-> TRUE, scored |-> <<>>, ret |-> <<>>]
       ELSE LET items == IterItems(src)
            IN IF \E i \in DOMAIN items : ~ItemOk(items[i])
               THEN [raised |-> TRUE, scored |-> <<>>, ret |-> <<>>]
               ELSE LET sorted == SortDesc(ScoreLoop(q, items, 1, <<>>))
                        top == Slice(sorted, top_k)
                    IN [raised |-> FALSE,
                        scored |-> sorted,
                        ret |-> [i \in DOMAIN top |-> top[i][2]]]

(***************************************************************************)
(* Inputs of the direct retriever calls.                                   *)
(***************************************************************************)
cat == <<"c","a","t">>
dog == <<"d","o","g">>
category == <<"c","a","t","e","g","o","r","y">>

QNone == JNull
QEmpty == JStr(<<>>)
QBlank == JStr(S(<<" "," ">>))
QCat == JStr(S(cat))
QCatDog == JStr(S(<<"C","a","t"," ","d","o","g">>))
QAll == JStr(S(<<"d","o","g","-","c","a","t",","," ">> \o category))

Queries == {QNone, QEmpty, QBlank, QCat, QCatDog, QAll}

EntCatDog == JObj([question |-> JStr(S(cat)), answer |-> JStr(S(dog))])
EntCategory == JObj([question |-> JStr(S(<<"C">> \o Tail(category))), answer |-> EmptyStr])
EntDog == JObj([question |-> JStr(S(<<"D","o","g","?">>))])
EntEmpty == JObj([question |-> EmptyStr, answer |-> EmptyStr])
EntCatCat == JObj([answer |-> JStr(S(<<"C","A","T"," ","c","a","t">>))])
EntNullQ == JObj([question |-> JNull, answer |-> JStr(S(cat))])
EntNum == JNum(7)

Records == {EntCatDog, EntCategory, EntDog, EntEmpty, EntCatCat}
Entries == Records \cup {EntNum}

KBs == {JNull} \cup { JList(s) : s \in SeqsUpTo(Entries, MaxKB) }
TopKs == (-1)..MaxTopK

(***************************************************************************)
(* A direct call of the retriever.                                         *)
(***************************************************************************)
Retrieve ==
    /\ rpc = "call"
    /\ LET r == best_faq_snippets(arg_text, arg_items, arg_k)
       IN /\ rpc' = IF r.raised THEN "raised" ELSE "returned"
          /\ scored' = r.scored
          /\ ret' = r.ret
    /\ UNCHANGED <<arg_text, arg_items, arg_k, svars>>

(***************************************************************************)
(* faq.json and json.load.  The file is a sequence of JSON tokens: the     *)
(* brackets and commas of a top-level array, and its values (objects and   *)
(* scalars).                                                               *)
(***************************************************************************)
LB == [k |-> "lb"]
RB == [k |-> "rb"]
Comma == [k |-> "comma"]
Val(v) == [k |-> "val", v |-> v]

\* The text json.dump writes for a value.
RECURSIVE DumpItems(_)
DumpItems(items) ==
    IF items = <<>> THEN <<>>
    ELSE IF Len(items) = 1 THEN <<Val(items[1])>>
    ELSE <<Val(items[1]), Comma>> \o DumpItems(Tail(items))

Dump(v) == IF v.t = "list" THEN <<LB>> \o DumpItems(v.items) \o <<RB>> ELSE <<Val(v)>>

\* json.load: [ok |-> FALSE] stands for JSONDecodeError.
json_load(toks) ==
    LET n == Len(toks)
        JSONDecodeError == [ok |-> FALSE, v |-> JNull]
    IN IF n = 1 /\ toks[1].k = "val" THEN [ok |-> TRUE, v |-> toks[1].v]
       ELSE IF n >= 2 /\ toks[1].k = "lb" /\ toks[n].k = "rb"
       THEN LET inner == SubSeq(toks, 2, n - 1)
                m == Len(inner)
            IN IF m = 0 THEN [ok |-> TRUE, v |-> JList(<<>>)]
               ELSE IF /\ m % 2 = 1
                       /\ \A i \in 1..m : inner[i].k = (IF i % 2 = 1 THEN "val" ELSE "comma")
               THEN [ok |-> TRUE,
                     v |-> JList([i \in 1..((m + 1) \div 2) |-> inner[2 * i - 1].v])]
               ELSE JSONDecodeError
       ELSE JSONDecodeError

\* load_faq_safe (src/app.py 29-34): whatever json.load returns, [] on any exception.
load_faq_safe(f) ==
    IF ~f.exists THEN JList(<<>>)
    ELSE LET r == json_load(f.toks)
         IN IF r.ok THEN r.v ELSE JList(<<>>)

\* get_faq (src/app.py 60-69)
get_faq(f) ==
    IF ~f.exists THEN [status |-> 404, data |-> JNull]
    ELSE LET r == json_load(f.toks)
         IN IF r.ok THEN [status |-> 200, data |-> r.v]
            ELSE [status |-> 500, data |-> JNull]

(***************************************************************************)
(* api_chat (src/app.py 159-191).                                          *)
(***************************************************************************)
EmptyObj == JObj(<<>>)
User == JStr(S(<<"u","s","e","r">>))

\* m.get("role") == "user"
IsUser(m) == Get(m, "role", JNull) = User

\* len(x) is defined for strs, lists and dicts; len(None) and len(7) raise TypeError.
HasLen(v) == v.t \in {"str", "list", "obj"}
PyLen(v) ==
    CASE v.t = "str"  -> StrLen(v.s)
      [] v.t = "list" -> Len(v.items)
      [] v.t = "obj"  -> Cardinality(DOMAIN v.f)

\* sum(len(m.get("content", "")) for m in messages if m.get("role") == "user")
RECURSIVE SumUserLen(_)
SumUserLen(msgs) ==
    IF msgs = <<>> THEN 0
    ELSE (IF IsUser(Head(msgs)) THEN PyLen(Get(Head(msgs), "content", EmptyStr)) ELSE 0)
         + SumUserLen(Tail(msgs))

\* The sum of line 167 evaluates without an exception.
SumOk(msgs) ==
    \A i \in DOMAIN msgs :
        /\ msgs[i].t = "obj"
        /\ IsUser(msgs[i]) => HasLen(Get(msgs[i], "content", EmptyStr))

\* user_len > 4000, line 168
TooLong(user_len) == user_len > MaxUserLen

\* Lines 161-169: the payload, the messages guard and the length guard.
\* out: "raised" (an exception leaves the handler), "400", "413" or "pass".
api_chat_guards(body) ==
    LET payload == Or(body, EmptyObj)
    IN IF payload.t # "obj" THEN [out |-> "raised", user_len |-> 0]
       ELSE LET messages == Get(payload, "messages", JList(<<>>))
            IN IF messages.t # "list" \/ ~Truthy(messages)
               THEN [out |-> "400", user_len |-> 0]
               ELSE IF ~SumOk(messages.items) THEN [out |-> "raised", user_len |-> 0]
               ELSE LET user_len == SumUserLen(messages.items)
                    IN IF TooLong(user_len) THEN [out |-> "413", user_len |-> user_len]
                       ELSE [out |-> "pass", user_len |-> user_len]

\* The messages of a request that passed the guards.
Messages(body) == Get(Or(body, EmptyObj), "messages", JList(<<>>)).items

\* [m.get("content", "") for m in messages if m.get("role") == "user"], line 173
RECURSIVE UserContents(_)
UserContents(msgs) ==
    IF msgs = <<>> THEN <<>>
    ELSE (IF IsUser(Head(msgs)) THEN <<Get(Head(msgs), "content", EmptyStr)>> ELSE <<>>)
         \o UserContents(Tail(msgs))

\* " ".join(parts) of strs
RECURSIVE Join(_)
Join(parts) ==
    IF parts = <<>> THEN <<>>
    ELSE IF Len(parts) = 1 THEN parts[1].s
    ELSE parts[1].s \o Space \o Join(Tail(parts))

\* Lines 173-174: user_text and top_faqs; join raises TypeError on a non-str part.
api_chat_retrieve(body, faq_items) ==
    LET parts == UserContents(Messages(body))
    IN IF \E i \in DOMAIN parts : parts[i].t # "str"
       THEN [raised |-> TRUE, user_text |-> EmptyStr, top |-> <<>>]
       ELSE LET user_text == JStr(Join(parts))
            IN IF ~Truthy(faq_items)
               THEN [raised |-> FALSE, user_text |-> user_text, top |-> <<>>]
               ELSE LET r == best_faq_snippets(user_text, faq_items, DefaultTopK)
                    IN [raised |-> r.raised, user_text |-> user_text, top |-> r.ret]

(***************************************************************************)
(* Requests and files of the service runs.                                 *)
(***************************************************************************)
Assistant == JStr(S(<<"a","s","s","i","s","t","a","n","t">>))

MsgNum == JNum(7)
MsgEmpty == JObj([role |-> User, content |-> EmptyStr])
MsgBlank == JObj([role |-> User, content |-> JStr(S(<<" ">>))])
MsgCat == JObj([role |-> User, content |-> JStr(S(<<"C","a","t","?">>))])
MsgLong == JObj([role |-> User, content |-> JStr(S(dog) \o Rep(" ", MaxUserLen - 3))])
MsgTooLong == JObj([role |-> User, content |-> JStr(S(dog) \o Rep(" ", MaxUserLen - 2))])
MsgNull == JObj([role |-> User, content |-> JNull])
MsgList == JObj([role |-> User, content |-> JList(<<JStr(S(cat))>>)])
MsgNoContent == JObj([role |-> User])
MsgAssistant == JObj([role |-> Assistant, content |-> JNull])

Msgs == {MsgNum, MsgEmpty, MsgBlank, MsgCat, MsgLong, MsgTooLong, MsgNull, MsgList,
         MsgNoContent, MsgAssistant}

Bodies ==
    {JNull, JList(<<JNum(7)>>), EmptyObj,
     JObj([messages |-> JStr(S(cat))]),
     JObj([messages |-> JNull])}
    \cup { JObj([messages |-> JList(s)]) : s \in SeqsUpTo(Msgs, MaxMsgs) }

OldKB == JList(<<EntCatDog, EntDog>>)
NewKB == JList(<<EntCategory, EntCatDog>>)

Absent == [exists |-> FALSE, toks |-> <<>>]
FileOf(toks) == [exists |-> TRUE, toks |-> toks]

InitFiles ==
    {Absent,
     FileOf(<<>>),
     FileOf(Dump(OldKB)),
     FileOf(Dump(EntCatDog)),
     FileOf(Dump(JNum(7))),
     FileOf(Dump(JList(<<EntNullQ>>)))}

NoObs == [during |-> FALSE, old |-> Absent, new |-> <<>>]
Obs == [during |-> wr.pc = "writing", old |-> wr.old, new |-> wr.new]

IdleReq ==
    [pc |-> "idle", body |-> JNull, user_len |-> 0, seen |-> Absent,
     faq_items |-> JNull, obs |-> NoObs, top_faqs |-> <<>>, with_faqs |-> FALSE,
     status |-> 0, text |-> "", faq_reads |-> 0, llm_calls |-> 0]

(***************************************************************************)
(* The steps of a /api/chat request.                                       *)
(***************************************************************************)
\* A request arrives and runs lines 161-169.
ChatGuards ==
    /\ req.pc = "idle"
    /\ faqresp.status = 0
    /\ \E body \in Bodies :
         LET g == api_chat_guards(body)
         IN req' = [IdleReq EXCEPT
                      !.body = body,
                      !.user_len = g.user_len,
                      !.pc = CASE g.out = "raised" -> "raised"
                               [] g.out = "pass" -> "load"
                               [] OTHER -> "done",
                      !.status = CASE g.out = "400" -> 400
                                   [] g.out = "413" -> 413
                                   [] OTHER -> 0,
                      !.text = CASE g.out = "400" -> "no messages"
                                 [] g.out = "413" -> "input too long"
                                 [] OTHER -> ""]
    /\ UNCHANGED <<file, wr, faqresp, rvars>>

\* Line 172: faq_items = load_faq_safe()
ChatLoad ==
    /\ req.pc = "load"
    /\ req' = [req EXCEPT !.pc = "retrieve",
                          !.seen = file,
                          !.faq_items = load_faq_safe(file),
                          !.obs = Obs,
                          !.faq_reads = @ + 1]
    /\ UNCHANGED <<file, wr, faqresp, rvars>>

\* Lines 173-180: user_text, top_faqs and the system context.
ChatRetrieve ==
    /\ req.pc = "retrieve"
    /\ LET r == api_chat_retrieve(req.body, req.faq_items)
       IN req' = [req EXCEPT !.pc = IF r.raised THEN "raised" ELSE "complete",
                             !.top_faqs = r.top,
                             !.with_faqs = r.top # <<>>]
    /\ UNCHANGED <<file, wr, faqresp, rvars>>

\* Lines 182-191: the completion call answers (200) or raises (500).
ChatComplete ==
    /\ req.pc = "complete"
    /\ \E answered \in BOOLEAN :
         req' = [req EXCEPT !.pc = "done",
                            !.llm_calls = @ + 1,
                            !.status = IF answered THEN 200 ELSE 500,
                            !.text = IF answered THEN "reply" ELSE "error"]
    /\ UNCHANGED <<file, wr, faqresp, rvars>>

(***************************************************************************)
(* GET /faq.                                                               *)
(***************************************************************************)
GetFaq ==
    /\ req.pc = "idle"
    /\ faqresp.status = 0
    /\ faqresp' = [status |-> get_faq(file).status, data |-> get_faq(file).data,
                   obs |-> Obs]
    /\ UNCHANGED <<file, wr, req, rvars>>

(***************************************************************************)
(* The environment replacing faq.json: open(..., "w") truncates the file,  *)
(* the new text is written piece by piece, then the file is closed.        *)
(***************************************************************************)
WriterOpen ==
    /\ wr.pc = "idle"
    /\ wr.count < MaxRewrites
    /\ \E kb \in {OldKB, NewKB} :
         wr' = [pc |-> "writing", old |-> file, new |-> Dump(kb),
                count |-> wr.count + 1]
    /\ file' = FileOf(<<>>)
    /\ UNCHANGED <<req, faqresp, rvars>>

WriterWrite ==
    /\ wr.pc = "writing"
    /\ Len(file.toks) < Len(wr.new)
    /\ file' = FileOf(Append(file.toks, wr.new[Len(file.toks) + 1]))
    /\ UNCHANGED <<wr, req, faqresp, rvars>>

WriterClose ==
    /\ wr.pc = "writing"
    /\ file.toks = wr.new
    /\ wr' = [wr EXCEPT !.pc = "idle"]
    /\ UNCHANGED <<file, req, faqresp, rvars>>

(***************************************************************************)
(* Specifications.                                                         *)
(***************************************************************************)
IdleWriter == [pc |-> "idle", old |-> Absent, new |-> <<>>, count |-> 0]
NoFaqResp == [status |-> 0, data |-> JNull, obs |-> NoObs]

\* The service.  A behaviour follows one request, to /api/chat or to /faq, from its
\* arrival to its response, for every content of faq.json and every interleaving
\* with the writer; the handlers keep no state from one request to the next.
Init ==
    /\ file \in InitFiles
    /\ wr = IdleWriter
    /\ req = IdleReq
    /\ faqresp = NoFaqResp
    /\ arg_text = JNull /\ arg_items = JNull /\ arg_k = 0
    /\ scored = <<>> /\ ret = <<>> /\ rpc = "idle"

Next ==
    \/ ChatGuards
    \/ ChatLoad
    \/ ChatRetrieve
    \/ ChatComplete
    \/ GetFaq
    \/ WriterOpen
    \/ WriterWrite
    \/ WriterClose

Spec == Init /\ [][Next]_vars

\* Direct calls of best_faq_snippets on every query, knowledge base and top_k.
InitRetriever ==
    /\ arg_text \in Queries
    /\ arg_items \in KBs
    /\ arg_k \in TopKs
    /\ scored = <<>> /\ ret = <<>> /\ rpc = "call"
    /\ file = Absent
    /\ wr = IdleWriter
    /\ req = IdleReq
    /\ faqresp = NoFaqResp

NextRetriever == Retrieve

SpecRetriever == InitRetriever /\ [][NextRetriever]_vars

(***************************************************************************)
(* Words and scores stated on the characters of the texts, independently   *)
(* of lower() and findall: the properties below compare the retriever      *)
(* with these.                                                             *)
(***************************************************************************)
\* The maximal runs of alphanumeric characters of cs.
MaximalRuns(cs) ==
    { SubSeq(cs, i, j) : <<i, j>> \in
        { p \in (DOMAIN cs) \X (DOMAIN cs) :
            /\ p[1] <= p[2]
            /\ \A k \in p[1]..p[2] : IsAlnum(cs[k])
            /\ p[1] = 1 \/ ~IsAlnum(cs[p[1] - 1])
            /\ p[2] = Len(cs) \/ ~IsAlnum(cs[p[2] + 1]) } }

SameWord(w1, w2) ==
    /\ Len(w1) = Len(w2)
    /\ \A i \in DOMAIN w1 : LowerChar(w1[i]) = LowerChar(w2[i])

\* w occurs in cs at some position, whatever surrounds it, ignoring case.
OccursIn(w, cs) ==
    \E i \in 1..(Len(cs) - Len(w) + 1) : SameWord(w, SubSeq(cs, i, i + Len(w) - 1))

LowerWord(w) == [i \in DOMAIN w |-> LowerChar(w[i])]

\* The arguments of the direct call.
QueryChars == IF arg_text.t = "str" THEN Chars(arg_text.s) ELSE <<>>
KB == IF arg_items.t = "list" THEN arg_items.items ELSE <<>>
N == Len(KB)

\* The characters of an entry's question and answer, a space between them.
EntryChars(item) ==
    Chars(Get(item, "question", EmptyStr).s) \o <<" ">> \o Chars(Get(item, "answer", EmptyStr).s)

\* The distinct query words that are a whole word of the entry's text.
WholeWordMatches(item) ==
    { LowerWord(w) : w \in { v \in MaximalRuns(QueryChars) :
                               \E u \in MaximalRuns(EntryChars(item)) : SameWord(v, u) } }

\* The distinct query words that occur anywhere in the entry's text.
ContainedMatches(item) ==
    { LowerWord(w) : w \in { v \in MaximalRuns(QueryChars) : OccursIn(v, EntryChars(item)) } }

SharesWord(item) == WholeWordMatches(item) # {}

\* Per entry of the knowledge base: the number of whole-word matches, and of contained
\* matches.
WholeWordCounts == [k \in 1..N |-> Cardinality(WholeWordMatches(KB[k]))]
ContainedCounts == [k \in 1..N |-> Cardinality(ContainedMatches(KB[k]))]

Returned == rpc = "returned"

\* Number of positions of seq holding x.
Occurrences(seq, x) == Cardinality({ i \in DOMAIN seq : seq[i] = x })

(***************************************************************************)
(* Properties of best_faq_snippets (specification SpecRetriever).          *)
(***************************************************************************)

\* C1 (as stated): whenever top_k is at least the size N of the knowledge base, the
\* returned sequence has length exactly N.
C1_AllReturnedWhenTopKCoversKB ==
    (Returned /\ arg_k >= N) => Len(ret) = N

\* C1 (amended): whenever top_k is at least the size N of the knowledge base, the
\* returned sequence holds exactly the entries that share at least one word with the
\* query, so its length is the number of those entries, which is at most N.
C1_MatchingReturnedWhenTopKCoversKB ==
    (Returned /\ arg_k >= N) =>
        /\ Len(ret) = Cardinality({ i \in 1..N : SharesWord(KB[i]) })
        /\ Len(ret) <= N

C1_Witness ==
    /\ Returned /\ arg_k >= N /\ N >= 2
    /\ Len(ret) > 0 /\ Len(ret) < N

\* C2: the returned sequence is ordered by non-increasing score, and returned entries
\* of equal score keep the relative order they have in the knowledge base.
C2_SortedStable ==
    Returned =>
        LET score == WholeWordCounts
        IN \A i, j \in DOMAIN ret :
               i < j =>
                   /\ score[ret[i]] >= score[ret[j]]
                   /\ score[ret[i]] = score[ret[j]] => ret[i] < ret[j]

C2_Witness ==
    /\ Returned
    /\ LET score == WholeWordCounts
       IN \E i, j \in DOMAIN ret :
              /\ i < j
              /\ score[ret[i]] = score[ret[j]]
              /\ KB[ret[i]] # KB[ret[j]]
    /\ \E i, j \in DOMAIN ret : i < j /\ ret[i] > ret[j]

\* C6 (as stated): the score of an entry counts the distinct query tokens that occur
\* as a substring anywhere in the entry's text ("cat" matches "category").
C6_ScoreCountsContainedTokens ==
    Returned =>
        LET count == ContainedCounts
        IN /\ \A i \in DOMAIN scored : scored[i][1] = count[scored[i][2]]
           /\ \A k \in 1..N : (count[k] > 0) <=> (\E i \in DOMAIN scored : scored[i][2] = k)

\* C6 (amended): the score of an entry counts the distinct query words that are equal,
\* ignoring case, to a whole alphanumeric word of the entry's text; a query word that
\* occurs only inside a longer word ("cat" in "category") does not count.
C6_ScoreCountsWholeWords ==
    Returned =>
        LET count == WholeWordCounts
        IN /\ \A i \in DOMAIN scored : scored[i][1] = count[scored[i][2]]
           /\ \A k \in 1..N : (count[k] > 0) <=> (\E i \in DOMAIN scored : scored[i][2] = k)

C6_Witness ==
    /\ Returned
    /\ scored # <<>>
    /\ \E k \in 1..N :
         /\ ContainedMatches(KB[k]) # {}
         /\ WholeWordMatches(KB[k]) = {}
         /\ \A i \in DOMAIN scored : scored[i][2] # k

\* C8: for a non-negative top_k (0 included) the returned sequence has at most top_k
\* and at most N elements, each an entry of the knowledge base, and no entry is
\* returned more often than it occurs in the knowledge base.
C8_BoundedSubsequence ==
    (Returned /\ arg_k >= 0) =>
        /\ Len(ret) <= arg_k
        /\ Len(ret) <= N
        /\ \A i \in DOMAIN ret : ret[i] \in 1..N
        /\ \A i, j \in DOMAIN ret : i # j => ret[i] # ret[j]
        /\ LET items == [i \in DOMAIN ret |-> KB[ret[i]]]
           IN \A e \in Range(items) : Occurrences(items, e) <= Occurrences(KB, e)

C8_Witness ==
    /\ Returned
    /\ arg_k > 0
    /\ Len(ret) = arg_k
    /\ Len(scored) > arg_k
    /\ \E i, j \in 1..N : i # j /\ KB[i] = KB[j]

\* C9: every returned item shares at least one alphanumeric word, ignoring case, with
\* the query; an entry whose words are disjoint from the query's is never returned, so
\* a query without words, or an entry with empty question and answer, gives no match.
C9_ReturnedShareAWord ==
    Returned =>
        /\ \A i \in DOMAIN ret : SharesWord(KB[ret[i]])
        /\ MaximalRuns(QueryChars) = {} => ret = <<>>
        /\ \A i \in DOMAIN ret : MaximalRuns(EntryChars(KB[ret[i]])) # {}

C9_Witness ==
    /\ Returned
    /\ ret # <<>>
    /\ arg_k >= N
    /\ \E k \in 1..N :
         /\ MaximalRuns(EntryChars(KB[k])) # {}
         /\ ~SharesWord(KB[k])
         /\ \A i \in DOMAIN ret : ret[i] # k

(***************************************************************************)
(* Properties of the service (specification Spec).                        *)
(***************************************************************************)
\* The file holds a JSON array of objects (a sequence of records).
IsRecordList(f) ==
    /\ f.exists
    /\ Len(f.toks) >= 2
    /\ f.toks[1] = LB /\ f.toks[Len(f.toks)] = RB
    /\ LET inner == SubSeq(f.toks, 2, Len(f.toks) - 1)
       IN /\ inner = <<>> \/ Len(inner) % 2 = 1
          /\ \A i \in DOMAIN inner :
               IF i % 2 = 1 THEN inner[i].k = "val" /\ inner[i].v.t = "obj"
               ELSE inner[i] = Comma

\* The records of such a file.
RecordsOf(f) ==
    LET inner == SubSeq(f.toks, 2, Len(f.toks) - 1)
    IN JList([i \in 1..((Len(inner) + 1) \div 2) |-> inner[2 * i - 1].v])

Loaded == req.faq_reads > 0

\* C3: load_faq_safe returns an empty knowledge base whenever faq.json is absent or
\* does not decode to a sequence of records (invalid JSON, or an object, a string, a
\* number); its result is non-empty only when the content is a sequence of records.
C3_LoaderEmptyUnlessRecordList ==
    Loaded =>
        /\ ~IsRecordList(req.seen) => req.faq_items = JList(<<>>)
        /\ IsRecordList(req.seen) => req.faq_items = RecordsOf(req.seen)

\* C4: api_chat never lets an exception escape: whatever the request body and the
\* state of faq.json, it ends in one of its responses 400, 413, 200 or 500.
C4_NeverRaises ==
    /\ req.pc # "raised"
    /\ req.pc = "done" => req.status \in {400, 413, 200, 500}

\* C5: while faq.json is being rewritten, a request that loads the knowledge base
\* (api_chat through load_faq_safe, and get_faq) observes the complete old set of
\* entries or the complete new set, never an empty, partial or mixed one.
C5_ReadersSeeOldOrNew ==
    /\ (Loaded /\ req.obs.during /\ IsRecordList(req.obs.old)) =>
           req.faq_items \in {RecordsOf(req.obs.old), json_load(req.obs.new).v}
    /\ (faqresp.status # 0 /\ faqresp.obs.during /\ IsRecordList(faqresp.obs.old)) =>
           /\ faqresp.status = 200
           /\ faqresp.data \in {RecordsOf(faqresp.obs.old), json_load(faqresp.obs.new).v}

\* The request carries a list of well-formed messages whose user contents are all
\* strs made of nothing but spaces (the query is empty or whitespace-only).
BlankQuery ==
    /\ req.pc # "idle"
    /\ req.body.t = "obj"
    /\ Get(req.body, "messages", JNull).t = "list"
    /\ Messages(req.body) # <<>>
    /\ \A i \in DOMAIN Messages(req.body) : Messages(req.body)[i].t = "obj"
    /\ LET parts == UserContents(Messages(req.body))
       IN /\ parts # <<>>
          /\ \A i \in DOMAIN parts :
               /\ parts[i].t = "str"
               /\ \A j \in DOMAIN parts[i].s : parts[i].s[j].c = " "

\* C7: for an empty or whitespace-only query api_chat answers the fixed prompt
\* "Please ask a question." whatever the knowledge base holds, and never consults the
\* completion service.
C7_BlankQueryShortCircuits ==
    BlankQuery =>
        /\ req.llm_calls = 0
        /\ req.pc = "done" => req.text = "Please ask a question."

\* The total number of characters of the str contents of the user-role messages.
RECURSIVE UserTotal(_)
UserTotal(msgs) ==
    IF msgs = <<>> THEN 0
    ELSE LET m == Head(msgs)
             c == IF m.t = "obj" /\ IsUser(m) THEN Get(m, "content", EmptyStr) ELSE EmptyStr
         IN (IF c.t = "str" THEN StrLen(c.s) ELSE 0) + UserTotal(Tail(msgs))

\* The body is absent or an object, and its messages field is missing, not a list or
\* an empty list.
NoMessages ==
    /\ req.body.t \in {"null", "obj"}
    /\ LET messages == Get(Or(req.body, EmptyObj), "messages", JList(<<>>))
       IN messages.t # "list" \/ messages.items = <<>>

\* The body is an object with a non-empty list of messages.
HasMessages ==
    /\ req.body.t = "obj"
    /\ Get(req.body, "messages", JNull).t = "list"
    /\ Messages(req.body) # <<>>

\* Every user-role message carries a str content (or none), so that the total length
\* of the user contents is defined.
UserContentsAreStrs ==
    \A i \in DOMAIN Messages(req.body) :
        LET m == Messages(req.body)[i]
        IN (m.t = "obj" /\ IsUser(m)) => Get(m, "content", EmptyStr).t = "str"

\* C10: api_chat decides its input guards before it loads faq.json or calls the
\* completion service: missing, non-list or empty messages end with 400, user contents
\* of more than 4000 characters in total end with 413, in both cases without a read of
\* faq.json or a completion call; a total of exactly 4000 characters passes the guard.
C10_GuardsBeforeLoad ==
    /\ (req.pc # "idle" /\ NoMessages) =>
           /\ req.pc = "done" /\ req.status = 400
           /\ req.faq_reads = 0 /\ req.llm_calls = 0
    /\ (/\ req.pc # "idle" /\ HasMessages /\ UserContentsAreStrs
        /\ UserTotal(Messages(req.body)) > MaxUserLen) =>
           /\ req.pc = "done" /\ req.status = 413
           /\ req.faq_reads = 0 /\ req.llm_calls = 0
    /\ (/\ req.pc # "idle" /\ HasMessages /\ UserContentsAreStrs
        /\ UserTotal(Messages(req.body)) = MaxUserLen) =>
           /\ req.status \notin {400, 413}
           /\ req.pc # "raised" \/ req.faq_reads > 0
    /\ (req.faq_reads > 0 \/ req.llm_calls > 0) =>
           /\ HasMessages
           /\ UserTotal(Messages(req.body)) <= MaxUserLen
=============================================================================
